---- MODULE Spec2Model ----
(***************************************************************************)
(* A model of kiwi's sink side (sink.go): the collector (the registry of   *)
(* sinks), the sinks with their filters, hidden keys and formatter, the    *)
(* processing goroutine of each sink (processOutput), and the calls that   *)
(* reach them: SinkTo, the filter mutators, Hide/Unhide, Start, Stop,      *)
(* Close, Flush and sinkRecord (the sink half of Logger.Log).              *)
(*                                                                         *)
(* Every goroutine is a process.  A caller goroutine runs one call at a    *)
(* time; call[t].pc is its position inside that call.  A step runs a       *)
(* goroutine up to the next operation that blocks it (a lock it cannot get *)
(* at once, a channel receive, a WaitGroup wait); the loop of sinkRecord   *)
(* takes one step per sink, because it reads each sink's flags unlocked.   *)
(* A goroutine that gets a lock at once and releases it without blocking   *)
(* in between does so in one step: holding a lock only delays others.      *)
(*                                                                         *)
(* sync.RWMutex is modelled as documented: Lock first announces the writer *)
(* (from then on RLock blocks) and then waits for the readers that hold    *)
(* the lock to leave.                                                      *)
(***************************************************************************)
EXTENDS Integers, Sequences, FiniteSets, TLC

\* ---------------------------------------------------------------- bounds

\* Caller goroutines.
NCallers == 2
\* SinkTo calls (so also the most sinks ever allocated).
MaxSinks == 2
\* Log calls (sinkRecord).
MaxLogs == 2
\* Start and Stop calls.
MaxCtl == 2
\* Close calls.
MaxClose == 2
\* Flush calls.
MaxFlush == 1
\* Caller goroutines where three are needed: two that log and one that
\* closes.
NDrain == 3

\* ------------------------------------------------------------- constants

\* make(chan *box, 16)
QueueCap == 16

NoOne == 0
NoSink == 0
NilWriter == "nil"

Callers == 1..NCallers
DrainCallers == 1..NDrain
\* Enough caller goroutines to fill the channel of a sink: one record for
\* each place of the channel, one that processOutput holds, one that finds
\* the channel full, and a caller that closes the sink.
FullCallers == 1..(QueueCap + 3)
\* Every caller goroutine of some scenario.
Threads == Callers \cup DrainCallers \cup FullCallers
SinkIds == 1..MaxSinks
Writers == {"w1", "w2"}
Formatters == {"f1", "f2"}
Keys == {"k", "m"}
Vals == {1, 2}

\* ------------------------------------------------------------------ data

\* A pair of a record: Key and Val.Strv.
Pairs == [Key : Keys, Val : Vals]

\* The records callers log in the concurrency scenarios.
CoreRecords == { <<[Key |-> "k", Val |-> 1]>> }

\* All records of one or two pairs with distinct keys.
AllRecords ==
  { <<p>> : p \in Pairs } \cup
  { <<p, q>> : <<p, q>> \in { pq \in Pairs \X Pairs : pq[1].Key # pq[2].Key } }

\* box.Record == nil
NilRec == [id |-> 0, pairs |-> <<>>]

\* A map with no keys (make(map[string]Filter), make(map[string]bool)).
EmptyMap == [k \in {} |-> NoOne]

MapSet(m, key, f) == [k \in (DOMAIN m) \cup {key} |-> IF k = key THEN f ELSE m[k]]
MapDelete(m, key) == [k \in (DOMAIN m) \ {key} |-> m[k]]

\* &Sink{format: fn, paused: true, In: ..., writer: w, ...}; id is set under
\* the collector lock.
NewSink(w, fn, id) ==
  [ id |-> id, writer |-> w, format |-> fn, closed |-> FALSE, paused |-> TRUE,
    positiveFilters |-> EmptyMap, negativeFilters |-> EmptyMap,
    hiddenKeys |-> {} ]

NoSinkRec == NewSink(NilWriter, "f1", 0)

\* The arguments of a mutator: keys, and the values a filter accepts.
NoArg == [keys |-> {}, vals |-> {}]

IdleCall ==
  [ pc |-> "idle", op |-> "none", s |-> NoSink, i |-> 0, w |-> NilWriter,
    fn |-> "f1", rec |-> NilRec, ids |-> {}, seen |-> {}, arg |-> NoArg ]

NoBox == [Record |-> NilRec, Group |-> NoOne]

NoLock == [r |-> {}, w |-> NoOne]

VARIABLES
  Sinks,     \* collector.Sinks: the registry, a sequence of sinks
  nalloc,    \* sinks allocated so far; sink n is the n-th allocated
  sink,      \* the fields of each Sink
  In,        \* Sink.In: the channel of each sink
  cmu,       \* collector.RWMutex
  smu,       \* Sink.RWMutex of each sink
  task,      \* position of each sink's processOutput goroutine
  cur,       \* the box processOutput has received and not yet handled
  call,      \* each caller goroutine: the call it is in and its locals
  wg,        \* the WaitGroup of each caller's current call
  out,       \* what each writer has received, in order
  born,      \* history: the id the next record had when SinkTo returned each sink
  enq,       \* history: ids of the records sent to each sink's channel
  verdict,   \* history: what processOutput did with each record
  flushed,   \* history: what the Flush calls that have returned came after
  quota,     \* calls the callers may still make
  nextId     \* the id of the next logged record

vars ==
  << Sinks, nalloc, sink, In, cmu, smu, task, cur, call, wg, out, born, enq,
     verdict, flushed, quota, nextId >>

\* ----------------------------------------------------------------- locks

\* RLock returns at once unless a writer has announced itself.
CanRLock(mu) == mu.w = NoOne
\* Lock announces the writer: one writer at a time.
CanAnnounce(mu) == mu.w = NoOne
\* The announced writer holds the lock once the readers have left.
CanAcquire(mu, t) == mu.w = t /\ mu.r = {}
\* Lock returns at once: no writer is announced and no reader holds mu.
Free(mu) == mu.w = NoOne /\ mu.r = {}

\* Group.Done() on the WaitGroup of caller g.
Done(g) == [wg EXCEPT ![g] = @ - 1]

\* The call of caller t returns.
Return(t) == [call EXCEPT ![t] = IdleCall]

Idle(t) == call[t].pc = "idle"

\* --------------------------------------------------------------- filters

\* The filters a sink can hold.  keyFilter accepts every value; valsFilter
\* accepts the listed values; a custom Filter (WithFilter) is any predicate,
\* given here by the set of values it accepts.
KeyFilter == [kind |-> "key", vals |-> {}]
ValsFilter(vals) == [kind |-> "vals", vals |-> vals]
CustomFilter(accept) == [kind |-> "custom", vals |-> accept]
\* int64RangeFilter, float64RangeFilter, timeRangeFilter: From and To.
RangeFilter(kind, range) == [kind |-> kind, vals |-> range]

\* Filter.Check(key, value)
Check(f, key, val) ==
  IF f.kind = "key" THEN TRUE ELSE val \in f.vals

\* A faulty loop that asks the positive filter first and lets a pair it
\* accepts through without asking the negative filter.
RECURSIVE PassesPositiveFirst(_, _, _)
PassesPositiveFirst(pairs, negative, positive) ==
  IF pairs = <<>> THEN TRUE
  ELSE LET pair == Head(pairs) IN
    IF pair.Key \in DOMAIN positive
      THEN IF Check(positive[pair.Key], pair.Key, pair.Val)
             THEN PassesPositiveFirst(Tail(pairs), negative, positive)
             ELSE FALSE
    ELSE IF pair.Key \in DOMAIN negative /\ Check(negative[pair.Key], pair.Key, pair.Val)
      THEN FALSE
    ELSE PassesPositiveFirst(Tail(pairs), negative, positive)

\* A faulty loop that leaves after the first pair.
PassesHeadOnly(pairs, negative, positive) ==
  IF pairs = <<>> THEN TRUE
  ELSE LET pair == Head(pairs) IN
    IF pair.Key \in DOMAIN negative /\ Check(negative[pair.Key], pair.Key, pair.Val)
      THEN FALSE
    ELSE IF pair.Key \in DOMAIN positive /\ ~Check(positive[pair.Key], pair.Key, pair.Val)
      THEN FALSE
    ELSE TRUE

\* The loop over the record's pairs in processOutput: TRUE when control
\* reaches s.filterRecord, FALSE when it jumps to skipRecord.
RECURSIVE Passes(_, _, _)
Passes(pairs, negative, positive) ==
  IF pairs = <<>> THEN TRUE
  ELSE LET pair == Head(pairs) IN
    IF pair.Key \in DOMAIN negative /\ Check(negative[pair.Key], pair.Key, pair.Val)
      THEN FALSE
    ELSE IF pair.Key \in DOMAIN positive /\ ~Check(positive[pair.Key], pair.Key, pair.Val)
      THEN FALSE
    ELSE Passes(Tail(pairs), negative, positive)

\* A faulty filterRecord loop without the test of s.hiddenKeys.
ShownAll(pairs, hidden) == pairs

\* The pairs filterRecord hands to s.format.Pair: those whose key is not
\* hidden, in the record's order.
Shown(pairs, hidden) ==
  LET keep(p) == p.Key \notin hidden IN SelectSeq(pairs, keep)

\* What the formatter fn returns from Finish() after Begin() and one Pair()
\* per pair: the pairs it was given, encoded its own way.
Format(fn, pairs) == [fmt |-> fn, pairs |-> pairs]

\* Sink.filterRecord: the writers after s has formatted and written rec.
filterRecord(s, rec) ==
  LET line == Format(sink[s].format, Shown(rec.pairs, sink[s].hiddenKeys))
      w == sink[s].writer
  IN IF w # NilWriter
       THEN [out EXCEPT ![w] = Append(@, [sink |-> s, id |-> rec.id, line |-> line])]
       ELSE out

\* ------------------------------------------------------------------ Init

CoreQuota ==
  [ sinkto |-> MaxSinks, log |-> MaxLogs, ctl |-> MaxCtl, close |-> MaxClose,
    flush |-> MaxFlush, cfg |-> 0 ]

InitWith(q) ==
  /\ Sinks = <<>>
  /\ nalloc = 0
  /\ sink = [s \in SinkIds |-> NoSinkRec]
  /\ In = [s \in SinkIds |-> <<>>]
  /\ cmu = NoLock
  /\ smu = [s \in SinkIds |-> NoLock]
  /\ task = [s \in SinkIds |-> "none"]
  /\ cur = [s \in SinkIds |-> NoBox]
  /\ call = [t \in Threads |-> IdleCall]
  /\ wg = [t \in Threads |-> 0]
  /\ out = [w \in Writers |-> <<>>]
  /\ born = [s \in SinkIds |-> 0]
  /\ enq = [s \in SinkIds |-> <<>>]
  /\ verdict = [s \in SinkIds |-> {}]
  /\ flushed = [s \in SinkIds |-> [sent |-> {}, logged |-> {}]]
  /\ quota = q
  /\ nextId = 1

Init == InitWith(CoreQuota)

Allocated == 1..nalloc

\* The sinks a SinkTo call has returned: the ones callers can have.
Returned == { s \in Allocated : born[s] # 0 }

\* ---------------------------------------------------------------- SinkTo

\* The first position of the registry whose sink writes to w, or 0.
Find(w) ==
  LET hits == { i \in 1..Len(Sinks) : sink[Sinks[i]].writer = w } IN
  IF hits = {} THEN 0 ELSE CHOOSE i \in hits : \A h \in hits : i <= h

\* A faulty line 82 that puts a new Sink in the place of the one found.
ReformatFresh(x, fn) == NewSink(x.writer, fn, x.id)

\* Line 82.
Reformat(x, fn) == [x EXCEPT !.format = fn]

\* Lines 79-87: under the collector's read lock, look for a sink that
\* writes to w; if there is one, replace its formatter and return it.
\* Otherwise the caller goes on to line 88 with no lock held.
SinkToScan(t, w, fn) ==
  /\ Idle(t) /\ quota.sinkto > 0
  /\ CanRLock(cmu)
  /\ quota' = [quota EXCEPT !.sinkto = @ - 1]
  /\ IF Find(w) # 0
       THEN /\ sink' = [sink EXCEPT ![Sinks[Find(w)]] = Reformat(@, fn)]
            /\ call' = [call EXCEPT ![t] =
                          [IdleCall EXCEPT !.pc = "sinkto_ret", !.op = "SinkTo",
                                           !.w = w, !.fn = fn, !.s = Sinks[Find(w)]]]
       ELSE /\ call' = [call EXCEPT ![t] =
                          [IdleCall EXCEPT !.pc = "sinkto_lock", !.op = "SinkTo",
                                           !.w = w, !.fn = fn]]
            /\ UNCHANGED sink
  /\ UNCHANGED << Sinks, nalloc, In, cmu, smu, task, cur, wg, out, born, enq,
                  verdict, flushed, nextId >>

\* Line 97 with readers holding the collector: collector.Lock() announces
\* the writer and waits.
SinkToLock(t) ==
  /\ call[t].pc = "sinkto_lock"
  /\ CanAnnounce(cmu) /\ cmu.r # {}
  /\ cmu' = [cmu EXCEPT !.w = t]
  /\ call' = [call EXCEPT ![t].pc = "sinkto_append"]
  /\ UNCHANGED << Sinks, nalloc, sink, In, smu, task, cur, wg, out, born, enq,
                  verdict, flushed, quota, nextId >>

\* Lines 88-102, with collector.Lock() got at once or after the wait: the
\* new sink gets the registry's length as its id, is appended, and its
\* processOutput goroutine starts.
SinkToAppend(t) ==
  /\ \/ call[t].pc = "sinkto_lock" /\ Free(cmu)
     \/ call[t].pc = "sinkto_append" /\ CanAcquire(cmu, t)
  /\ LET s == nalloc + 1 IN
     /\ nalloc' = s
     /\ sink' = [sink EXCEPT ![s] = NewSink(call[t].w, call[t].fn, Len(Sinks))]
     /\ Sinks' = Append(Sinks, s)
     /\ task' = [task EXCEPT ![s] = "recv"]
     /\ call' = [call EXCEPT ![t].pc = "sinkto_ret", ![t].s = s]
  /\ cmu' = [cmu EXCEPT !.w = NoOne]
  /\ UNCHANGED << In, smu, cur, wg, out, born, enq, verdict, flushed, quota, nextId >>

\* Lines 84 and 102: the caller has the sink SinkTo returns, call[t].s.
\* born keeps the id the next record has when a sink is first returned.
SinkToReturn(t) ==
  /\ call[t].pc = "sinkto_ret"
  /\ call' = Return(t)
  /\ born' = IF born[call[t].s] = 0 THEN [born EXCEPT ![call[t].s] = nextId] ELSE born
  /\ UNCHANGED << Sinks, nalloc, sink, In, cmu, smu, task, cur, wg, out, enq,
                  verdict, flushed, quota, nextId >>

\* ------------------------------------------------ the fields of a sink

\* Line 281.
StopOn(x) == [x EXCEPT !.paused = TRUE]
\* Line 291.
StartOn(x) == [x EXCEPT !.paused = FALSE]

\* m with filter f under every key of keys / without the keys of keys.
MapSetAll(m, keys, f) == [k \in (DOMAIN m) \cup keys |-> IF k \in keys THEN f ELSE m[k]]
MapDeleteAll(m, keys) == [k \in (DOMAIN m) \ keys |-> m[k]]

\* A positive filter f for each key of keys, its negative filter deleted.
Positive(x, keys, f) ==
  IF x.closed THEN x
  ELSE [x EXCEPT !.positiveFilters = MapSetAll(@, keys, f),
                 !.negativeFilters = MapDeleteAll(@, keys)]

\* A negative filter f for each key of keys, its positive filter deleted.
Negative(x, keys, f) ==
  IF x.closed THEN x
  ELSE [x EXCEPT !.negativeFilters = MapSetAll(@, keys, f),
                 !.positiveFilters = MapDeleteAll(@, keys)]

\* Lines 107-117.
WithKeyOn(x, a) == Positive(x, a.keys, KeyFilter)
\* Lines 121-131.
WithoutKeyOn(x, a) == Negative(x, a.keys, KeyFilter)
\* Lines 135-146: with no values, WithValue is WithKey.
WithValueOn(x, a) ==
  IF a.vals = {} THEN WithKeyOn(x, a) ELSE Positive(x, a.keys, ValsFilter(a.vals))
\* Lines 149-160.
WithoutValueOn(x, a) ==
  IF a.vals = {} THEN WithoutKeyOn(x, a) ELSE Negative(x, a.keys, ValsFilter(a.vals))
\* Lines 163-171.
WithInt64RangeOn(x, a) == Positive(x, a.keys, RangeFilter("int64", a.vals))
\* Lines 174-182.
WithoutInt64RangeOn(x, a) == Negative(x, a.keys, RangeFilter("int64", a.vals))
\* Lines 185-193.
WithFloat64RangeOn(x, a) == Positive(x, a.keys, RangeFilter("float64", a.vals))
\* Lines 196-204.
WithoutFloat64RangeOn(x, a) == Negative(x, a.keys, RangeFilter("float64", a.vals))
\* Lines 207-215.
WithTimeRangeOn(x, a) == Positive(x, a.keys, RangeFilter("time", a.vals))
\* Lines 218-226.
WithoutTimeRangeOn(x, a) == Negative(x, a.keys, RangeFilter("time", a.vals))

\* Lines 231-238: the custom filter becomes the key's positive filter; the
\* key's negative filter stays.
WithFilterOn(x, a) ==
  IF x.closed THEN x
  ELSE [x EXCEPT !.positiveFilters = MapSetAll(@, a.keys, CustomFilter(a.vals))]

\* Lines 241-251.
ResetOn(x, a) ==
  IF x.closed THEN x
  ELSE [x EXCEPT !.positiveFilters = MapDeleteAll(@, a.keys),
                 !.negativeFilters = MapDeleteAll(@, a.keys)]

\* Lines 255-264.
HideOn(x, a) ==
  IF x.closed THEN x ELSE [x EXCEPT !.hiddenKeys = @ \cup a.keys]

\* Lines 267-276.
UnhideOn(x, a) ==
  IF x.closed THEN x ELSE [x EXCEPT !.hiddenKeys = @ \ a.keys]

\* What the call op with arguments a makes of the fields x of its sink.
Apply(op, a, x) ==
  CASE op = "Start" -> StartOn(x)
    [] op = "Stop" -> StopOn(x)
    [] op = "WithKey" -> WithKeyOn(x, a)
    [] op = "WithoutKey" -> WithoutKeyOn(x, a)
    [] op = "WithValue" -> WithValueOn(x, a)
    [] op = "WithoutValue" -> WithoutValueOn(x, a)
    [] op = "WithInt64Range" -> WithInt64RangeOn(x, a)
    [] op = "WithoutInt64Range" -> WithoutInt64RangeOn(x, a)
    [] op = "WithFloat64Range" -> WithFloat64RangeOn(x, a)
    [] op = "WithoutFloat64Range" -> WithoutFloat64RangeOn(x, a)
    [] op = "WithTimeRange" -> WithTimeRangeOn(x, a)
    [] op = "WithoutTimeRange" -> WithoutTimeRangeOn(x, a)
    [] op = "WithFilter" -> WithFilterOn(x, a)
    [] op = "Reset" -> ResetOn(x, a)
    [] op = "Hide" -> HideOn(x, a)
    [] op = "Unhide" -> UnhideOn(x, a)

\* ------------------------------------------- calls that take s.Lock()

CtlOps == {"Start", "Stop"}
CfgOps == {"WithKey", "WithoutKey", "WithValue", "WithoutValue",
           "WithInt64Range", "WithoutInt64Range", "WithFloat64Range",
           "WithoutFloat64Range", "WithTimeRange", "WithoutTimeRange",
           "WithFilter", "Reset", "Hide", "Unhide"}

Budget(op) ==
  IF op \in CtlOps THEN quota.ctl ELSE IF op = "Close" THEN quota.close ELSE quota.cfg

Spend(op) ==
  IF op \in CtlOps THEN [quota EXCEPT !.ctl = @ - 1]
  ELSE IF op = "Close" THEN [quota EXCEPT !.close = @ - 1]
  ELSE [quota EXCEPT !.cfg = @ - 1]

\* Caller t may call op on s, a sink SinkTo has returned.
Calls(t, s, op) == Idle(t) /\ Budget(op) > 0 /\ s \in Returned

\* s.Lock() at the head of Start, Stop, Close and of every mutator, with a
\* reader holding s: the caller announces itself as the writer and waits.
SinkLock(t, s, op, a) ==
  /\ Calls(t, s, op)
  /\ CanAnnounce(smu[s]) /\ smu[s].r # {}
  /\ quota' = Spend(op)
  /\ smu' = [smu EXCEPT ![s].w = t]
  /\ call' = [call EXCEPT ![t] =
                [IdleCall EXCEPT !.pc = "locking", !.op = op, !.s = s, !.arg = a]]
  /\ UNCHANGED << Sinks, nalloc, sink, In, cmu, task, cur, wg, out, born, enq,
                  verdict, flushed, nextId >>

\* The readers of s have left: s.Lock() returns in the parked Start, Stop
\* or mutator, which changes the fields of s, unlocks and returns.
Unpark(t) ==
  /\ call[t].pc = "locking" /\ call[t].op # "Close"
  /\ CanAcquire(smu[call[t].s], t)
  /\ sink' = [sink EXCEPT ![call[t].s] = Apply(call[t].op, call[t].arg, @)]
  /\ smu' = [smu EXCEPT ![call[t].s].w = NoOne]
  /\ call' = Return(t)
  /\ UNCHANGED << Sinks, nalloc, In, cmu, task, cur, wg, out, born, enq,
                  verdict, flushed, quota, nextId >>

\* The whole call op(a) of caller t on s when s.Lock() returns at once:
\* the fields of s change between s.Lock() and s.Unlock().
WriteCall(t, s, op, a) ==
  /\ Calls(t, s, op)
  /\ Free(smu[s])
  /\ quota' = Spend(op)
  /\ sink' = [sink EXCEPT ![s] = Apply(op, a, @)]
  /\ UNCHANGED << Sinks, nalloc, In, cmu, smu, task, cur, call, wg, out, born,
                  enq, verdict, flushed, nextId >>

Stop(t, s) == WriteCall(t, s, "Stop", NoArg)
Start(t, s) == WriteCall(t, s, "Start", NoArg)
WithKey(t, s, a) == WriteCall(t, s, "WithKey", a)
WithoutKey(t, s, a) == WriteCall(t, s, "WithoutKey", a)
WithValue(t, s, a) == WriteCall(t, s, "WithValue", a)
WithoutValue(t, s, a) == WriteCall(t, s, "WithoutValue", a)
WithInt64Range(t, s, a) == WriteCall(t, s, "WithInt64Range", a)
WithoutInt64Range(t, s, a) == WriteCall(t, s, "WithoutInt64Range", a)
WithFloat64Range(t, s, a) == WriteCall(t, s, "WithFloat64Range", a)
WithoutFloat64Range(t, s, a) == WriteCall(t, s, "WithoutFloat64Range", a)
WithTimeRange(t, s, a) == WriteCall(t, s, "WithTimeRange", a)
WithoutTimeRange(t, s, a) == WriteCall(t, s, "WithoutTimeRange", a)
WithFilter(t, s, a) == WriteCall(t, s, "WithFilter", a)
Reset(t, s, a) == WriteCall(t, s, "Reset", a)
Hide(t, s, a) == WriteCall(t, s, "Hide", a)
Unhide(t, s, a) == WriteCall(t, s, "Unhide", a)

\* ----------------------------------------------------------------- Close

\* Caller t is at line 299 of Close on s: s.Lock() has returned, at once
\* or after the wait.
AtCloseCheck(t, s) ==
  \/ Calls(t, s, "Close") /\ Free(smu[s])
  \/ /\ call[t].pc = "locking" /\ call[t].op = "Close" /\ call[t].s = s
     /\ CanAcquire(smu[s], t)

\* Caller t is at line 301 of Close on s: collector.Lock() has returned, at
\* once or after the wait.
AtCloseBody(t, s) ==
  \/ AtCloseCheck(t, s) /\ ~sink[s].closed /\ Free(cmu)
  \/ call[t].pc = "close_body" /\ call[t].s = s /\ CanAcquire(cmu, t)

Charge(t, op) == IF Idle(t) THEN Spend(op) ELSE quota

\* Lines 298-299 and 306: Close of a sink that is closed already changes
\* nothing.
CloseClosed(t, s) ==
  /\ AtCloseCheck(t, s)
  /\ sink[s].closed
  /\ quota' = Charge(t, "Close")
  /\ smu' = [smu EXCEPT ![s].w = NoOne]
  /\ call' = Return(t)
  /\ UNCHANGED << Sinks, nalloc, sink, In, cmu, task, cur, wg, out, born, enq,
                  verdict, flushed, nextId >>

\* Line 300 with readers holding the collector: collector.Lock() announces
\* the writer and waits, with s.Lock() held.
CloseCollectorLock(t, s) ==
  /\ AtCloseCheck(t, s)
  /\ ~sink[s].closed
  /\ CanAnnounce(cmu) /\ cmu.r # {}
  /\ quota' = Charge(t, "Close")
  /\ smu' = [smu EXCEPT ![s].w = t]
  /\ cmu' = [cmu EXCEPT !.w = t]
  /\ call' = [call EXCEPT ![t] =
                [IdleCall EXCEPT !.pc = "close_body", !.op = "Close", !.s = s]]
  /\ UNCHANGED << Sinks, nalloc, sink, In, task, cur, wg, out, born, enq,
                  verdict, flushed, nextId >>

\* append(collector.Sinks[0:id], collector.Sinks[id+1:]...): the registry
\* without the element at (0-based) index id.
RemoveAt(seq, id) ==
  [ j \in 1..(Len(seq) - 1) |-> IF j <= id THEN seq[j] ELSE seq[j + 1] ]

\* collector.Sinks[id+1:] is in range.
SliceOk(seq, id) == id + 1 <= Len(seq)

\* Lines 301-302.
CloseOn(x) == [x EXCEPT !.closed = TRUE, !.writer = NilWriter]

\* Lines 301-306: mark s closed, clear its writer, cut the registry at s.id,
\* release both locks.
Close(t, s) ==
  /\ AtCloseBody(t, s)
  /\ SliceOk(Sinks, sink[s].id)
  /\ quota' = Charge(t, "Close")
  /\ sink' = [sink EXCEPT ![s] = CloseOn(@)]
  /\ Sinks' = RemoveAt(Sinks, sink[s].id)
  /\ cmu' = [cmu EXCEPT !.w = NoOne]
  /\ smu' = [smu EXCEPT ![s].w = NoOne]
  /\ call' = Return(t)
  /\ UNCHANGED << nalloc, In, task, cur, wg, out, born, enq, verdict, flushed, nextId >>

\* Line 303 with s.id + 1 > len(collector.Sinks): the slice expression
\* panics (slice bounds out of range) after lines 301-302.  Nothing
\* recovers, so the program ends: every goroutine is dead.
ClosePanic(t, s) ==
  /\ AtCloseBody(t, s)
  /\ ~SliceOk(Sinks, sink[s].id)
  /\ quota' = Charge(t, "Close")
  /\ sink' = [sink EXCEPT ![s] = CloseOn(@)]
  /\ smu' = [smu EXCEPT ![s].w = t]
  /\ cmu' = [cmu EXCEPT !.w = t]
  /\ call' = [c \in Threads |-> [call[c] EXCEPT !.pc = "dead"]]
  /\ task' = [x \in SinkIds |-> IF task[x] = "none" THEN "none" ELSE "dead"]
  /\ UNCHANGED << Sinks, nalloc, In, cur, wg, out, born, enq, verdict, flushed,
                  nextId >>

\* ----------------------------------------------------------------- Flush

\* The ids of the records sent to the channel of s so far.
Sent(s) == { enq[s][j] : j \in 1..Len(enq[s]) }

\* The ids of the records whose Log call has returned.
LogReturned ==
  { id \in 1..(nextId - 1) : \A t \in Threads : call[t].op = "Log" => call[t].rec.id # id }

\* The ids of the records logged after SinkTo returned s whose Log call has
\* returned.
Logged(s) == { id \in LogReturned : born[s] # 0 /\ id >= born[s] }

\* A Flush of s returns that was called after the records of sent were sent
\* to s and after the Log calls of the records of logged returned.
FlushReturns(s, sent, logged) ==
  [flushed EXCEPT ![s] = [sent |-> @.sent \cup sent, logged |-> @.logged \cup logged]]

\* Lines 311-312 and 318: s.RLock(); Flush of a closed sink returns at once.
FlushClosed(t, s) ==
  /\ Idle(t) /\ quota.flush > 0
  /\ s \in Returned
  /\ CanRLock(smu[s])
  /\ sink[s].closed
  /\ quota' = [quota EXCEPT !.flush = @ - 1]
  /\ flushed' = FlushReturns(s, Sent(s), Logged(s))
  /\ UNCHANGED << Sinks, nalloc, sink, In, cmu, smu, task, cur, call, wg, out,
                  born, enq, verdict, nextId >>

\* Lines 311-315: s.RLock(); wg.Add(1); s.In <- &box{nil, &wg}.  The read
\* lock stays held.  ids keeps the records sent to s before this call.
FlushSend(t, s) ==
  /\ Idle(t) /\ quota.flush > 0
  /\ s \in Returned
  /\ CanRLock(smu[s])
  /\ ~sink[s].closed
  /\ Len(In[s]) < QueueCap
  /\ quota' = [quota EXCEPT !.flush = @ - 1]
  /\ smu' = [smu EXCEPT ![s].r = @ \cup {t}]
  /\ wg' = [wg EXCEPT ![t] = 1]
  /\ In' = [In EXCEPT ![s] = Append(@, [Record |-> NilRec, Group |-> t])]
  /\ call' = [call EXCEPT ![t] =
                [IdleCall EXCEPT !.pc = "flush_wait", !.op = "Flush", !.s = s,
                                 !.ids = Sent(s), !.seen = Logged(s)]]
  /\ UNCHANGED << Sinks, nalloc, sink, cmu, task, cur, out, born, enq, verdict,
                  flushed, nextId >>

\* Lines 316-319: wg.Wait() returns, s.RUnlock().
FlushWait(t) ==
  /\ call[t].pc = "flush_wait"
  /\ wg[t] = 0
  /\ smu' = [smu EXCEPT ![call[t].s].r = @ \ {t}]
  /\ flushed' = FlushReturns(call[t].s, call[t].ids, call[t].seen)
  /\ call' = Return(t)
  /\ UNCHANGED << Sinks, nalloc, sink, In, cmu, task, cur, wg, out, born, enq,
                  verdict, quota, nextId >>

\* ------------------------------------------------------------ sinkRecord

\* Lines 397-398: collector.RLock().  The record gets the next id.  With an
\* empty registry the loop has no turn and line 407 unlocks at once.
LogBegin(t, pairs) ==
  /\ Idle(t) /\ quota.log > 0
  /\ CanRLock(cmu)
  /\ quota' = [quota EXCEPT !.log = @ - 1]
  /\ cmu' = IF Sinks = <<>> THEN cmu ELSE [cmu EXCEPT !.r = @ \cup {t}]
  /\ call' = [call EXCEPT ![t] =
                [IdleCall EXCEPT !.pc = IF Sinks = <<>> THEN "log_wait" ELSE "log_loop",
                                 !.op = "Log", !.i = 1,
                                 !.rec = [id |-> nextId, pairs |-> pairs]]]
  /\ nextId' = nextId + 1
  /\ UNCHANGED << Sinks, nalloc, sink, In, smu, task, cur, wg, out, born, enq,
                  verdict, flushed >>

\* Line 401: the test sinkRecord makes of s, reading both flags without
\* the lock of s.
Targeted(x) == ~x.paused /\ ~x.closed

\* Lines 399-407, one turn of the loop: the sink at position i gets the
\* record if it is neither paused nor closed; after the last turn,
\* collector.RUnlock().  ids keeps the sinks sent to.
LogSend(t) ==
  /\ call[t].pc = "log_loop"
  /\ LET s == Sinks[call[t].i]
         last == call[t].i = Len(Sinks)
         pc == IF last THEN "log_wait" ELSE "log_loop"
     IN
     /\ IF Targeted(sink[s])
          THEN /\ Len(In[s]) < QueueCap
               /\ wg' = [wg EXCEPT ![t] = @ + 1]
               /\ In' = [In EXCEPT ![s] = Append(@, [Record |-> call[t].rec, Group |-> t])]
               /\ enq' = [enq EXCEPT ![s] = Append(@, call[t].rec.id)]
               /\ call' = [call EXCEPT ![t].i = @ + 1, ![t].ids = @ \cup {s}, ![t].pc = pc]
          ELSE /\ call' = [call EXCEPT ![t].i = @ + 1, ![t].pc = pc]
               /\ UNCHANGED << wg, In, enq >>
     /\ cmu' = IF last THEN [cmu EXCEPT !.r = @ \ {t}] ELSE cmu
  /\ UNCHANGED << Sinks, nalloc, sink, smu, task, cur, out, born, verdict,
                  flushed, quota, nextId >>

\* A faulty sinkRecord without wg.Wait().
LogWaitEarly(t) ==
  /\ call[t].pc = "log_wait"
  /\ call' = Return(t)
  /\ UNCHANGED << Sinks, nalloc, sink, In, cmu, smu, task, cur, wg, out, born,
                  enq, verdict, flushed, quota, nextId >>

\* Line 408: wg.Wait() returns.
LogWait(t) ==
  /\ call[t].pc = "log_wait"
  /\ wg[t] = 0
  /\ call' = Return(t)
  /\ UNCHANGED << Sinks, nalloc, sink, In, cmu, smu, task, cur, wg, out, born,
                  enq, verdict, flushed, quota, nextId >>

\* --------------------------------------------------------- processOutput

\* A faulty channel that hands out the newest box first.
TakeNewest(ch) == [box |-> ch[Len(ch)], rest |-> SubSeq(ch, 1, Len(ch) - 1)]

\* box, ok = <-s.In: the oldest box of the channel, and the channel
\* without it.
Take(ch) == [box |-> Head(ch), rest |-> Tail(ch)]

\* Line 328 with a writer announced on s: processOutput receives a box and
\* waits in s.RLock() (line 338).  Nothing closes s.In, so lines 329-337
\* never run.
Receive(s) ==
  /\ task[s] = "recv"
  /\ In[s] # <<>>
  /\ ~CanRLock(smu[s])
  /\ cur' = [cur EXCEPT ![s] = Take(In[s]).box]
  /\ In' = [In EXCEPT ![s] = Take(@).rest]
  /\ task' = [task EXCEPT ![s] = "box"]
  /\ UNCHANGED << Sinks, nalloc, sink, cmu, smu, call, wg, out, born, enq,
                  verdict, flushed, quota, nextId >>

\* processOutput is at line 339 with a box: it has received one and
\* s.RLock() has returned, at once or after the wait.
Holding(s) ==
  /\ CanRLock(smu[s])
  /\ \/ task[s] = "box"
     \/ task[s] = "recv" /\ In[s] # <<>>

\* The box processOutput is handling, and the channel without it.
Box(s) == IF task[s] = "box" THEN cur[s] ELSE Take(In[s]).box
Rest(s) == IF task[s] = "box" THEN In[s] ELSE Take(In[s]).rest

IsFlush(box) == box.Record = NilRec

Note(s, id, what) == [verdict EXCEPT ![s] = @ \cup {<<id, what>>}]

\* Lines 339-345: the sink is closed: signal the box and end the goroutine.
ProcessClosed(s) ==
  /\ Holding(s)
  /\ sink[s].closed
  /\ wg' = Done(Box(s).Group)
  /\ verdict' = IF IsFlush(Box(s)) THEN verdict ELSE Note(s, Box(s).Record.id, "closed")
  /\ In' = [In EXCEPT ![s] = Rest(s)]
  /\ cur' = [cur EXCEPT ![s] = NoBox]
  /\ task' = [task EXCEPT ![s] = "exited"]
  /\ UNCHANGED << Sinks, nalloc, sink, cmu, smu, call, out, born, enq, flushed,
                  quota, nextId >>

\* Lines 346-351: a flush marker is signalled.
ProcessFlush(s) ==
  /\ Holding(s)
  /\ ~sink[s].closed
  /\ IsFlush(Box(s))
  /\ wg' = Done(Box(s).Group)
  /\ In' = [In EXCEPT ![s] = Rest(s)]
  /\ cur' = [cur EXCEPT ![s] = NoBox]
  /\ task' = [task EXCEPT ![s] = "recv"]
  /\ UNCHANGED << Sinks, nalloc, sink, cmu, smu, call, out, born, enq, verdict,
                  flushed, quota, nextId >>

\* A faulty processOutput without the test of s.paused at line 352: the
\* record of a paused sink is written.
ProcessPausedWrites(s) ==
  /\ Holding(s)
  /\ ~sink[s].closed
  /\ ~IsFlush(Box(s))
  /\ sink[s].paused
  /\ out' = filterRecord(s, Box(s).Record)
  /\ wg' = Done(Box(s).Group)
  /\ verdict' = Note(s, Box(s).Record.id, "paused")
  /\ In' = [In EXCEPT ![s] = Rest(s)]
  /\ cur' = [cur EXCEPT ![s] = NoBox]
  /\ task' = [task EXCEPT ![s] = "recv"]
  /\ UNCHANGED << Sinks, nalloc, sink, cmu, smu, call, born, enq, flushed, quota,
                  nextId >>

\* A faulty processOutput that drops the record of a paused sink without
\* box.Group.Done().
ProcessPausedNoDone(s) ==
  /\ Holding(s)
  /\ ~sink[s].closed
  /\ ~IsFlush(Box(s))
  /\ sink[s].paused
  /\ verdict' = Note(s, Box(s).Record.id, "paused")
  /\ In' = [In EXCEPT ![s] = Rest(s)]
  /\ cur' = [cur EXCEPT ![s] = NoBox]
  /\ task' = [task EXCEPT ![s] = "recv"]
  /\ UNCHANGED << Sinks, nalloc, sink, cmu, smu, call, wg, out, born, enq,
                  flushed, quota, nextId >>

\* Lines 352-358: the sink is paused: the record is signalled and dropped.
ProcessPaused(s) ==
  /\ Holding(s)
  /\ ~sink[s].closed
  /\ ~IsFlush(Box(s))
  /\ sink[s].paused
  /\ wg' = Done(Box(s).Group)
  /\ verdict' = Note(s, Box(s).Record.id, "paused")
  /\ In' = [In EXCEPT ![s] = Rest(s)]
  /\ cur' = [cur EXCEPT ![s] = NoBox]
  /\ task' = [task EXCEPT ![s] = "recv"]
  /\ UNCHANGED << Sinks, nalloc, sink, cmu, smu, call, out, born, enq, flushed,
                  quota, nextId >>

\* Lines 359-379: the record goes through the filters; if it passes, it is
\* formatted and written; it is signalled either way.
ProcessRecord(s) ==
  /\ Holding(s)
  /\ ~sink[s].closed
  /\ ~IsFlush(Box(s))
  /\ ~sink[s].paused
  /\ IF Passes(Box(s).Record.pairs, sink[s].negativeFilters, sink[s].positiveFilters)
       THEN /\ out' = filterRecord(s, Box(s).Record)
            /\ verdict' = Note(s, Box(s).Record.id, "written")
       ELSE /\ verdict' = Note(s, Box(s).Record.id, "rejected")
            /\ UNCHANGED out
  /\ wg' = Done(Box(s).Group)
  /\ In' = [In EXCEPT ![s] = Rest(s)]
  /\ cur' = [cur EXCEPT ![s] = NoBox]
  /\ task' = [task EXCEPT ![s] = "recv"]
  /\ UNCHANGED << Sinks, nalloc, sink, cmu, smu, call, born, enq, flushed, quota,
                  nextId >>

\* ------------------------------------------------------------------ Next

\* Registering, starting, stopping, closing and flushing sinks and logging
\* records, from every caller, with one formatter and one record.
Next ==
  \/ \E t \in Callers, w \in Writers : SinkToScan(t, w, "f1")
  \/ \E t \in Callers : SinkToLock(t)
  \/ \E t \in Callers : SinkToAppend(t)
  \/ \E t \in Callers : SinkToReturn(t)
  \/ \E t \in Callers, s \in SinkIds, op \in CtlOps \cup {"Close"} : SinkLock(t, s, op, NoArg)
  \/ \E t \in Callers : Unpark(t)
  \/ \E t \in Callers, s \in SinkIds : Start(t, s)
  \/ \E t \in Callers, s \in SinkIds : Stop(t, s)
  \/ \E t \in Callers, s \in SinkIds : CloseClosed(t, s)
  \/ \E t \in Callers, s \in SinkIds : CloseCollectorLock(t, s)
  \/ \E t \in Callers, s \in SinkIds : Close(t, s)
  \/ \E t \in Callers, s \in SinkIds : ClosePanic(t, s)
  \/ \E t \in Callers, s \in SinkIds : FlushClosed(t, s)
  \/ \E t \in Callers, s \in SinkIds : FlushSend(t, s)
  \/ \E t \in Callers : FlushWait(t)
  \/ \E t \in Callers, pairs \in CoreRecords : LogBegin(t, pairs)
  \/ \E t \in Callers : LogSend(t)
  \/ \E t \in Callers : LogWait(t)
  \/ \E s \in SinkIds : Receive(s)
  \/ \E s \in SinkIds : ProcessClosed(s)
  \/ \E s \in SinkIds : ProcessFlush(s)
  \/ \E s \in SinkIds : ProcessPaused(s)
  \/ \E s \in SinkIds : ProcessRecord(s)

Spec == Init /\ [][Next]_vars

\* ------------------------------------------------- pausing and resuming

\* One sink, started, stopped and started again while two callers log.
PauseCtl == 3
PauseLogs == 2
PauseSinks == 1

PauseQuota ==
  [ sinkto |-> PauseSinks, log |-> PauseLogs, ctl |-> PauseCtl, close |-> 0,
    flush |-> 0, cfg |-> 0 ]

InitPause == InitWith(PauseQuota)

\* No Flush holds the sink's lock here, so Start and Stop never wait and
\* processOutput never waits for a writer.
NextPause ==
  \/ \E t \in Callers : SinkToScan(t, "w1", "f1")
  \/ \E t \in Callers : SinkToAppend(t)
  \/ \E t \in Callers : SinkToReturn(t)
  \/ \E t \in Callers, s \in SinkIds : Start(t, s)
  \/ \E t \in Callers, s \in SinkIds : Stop(t, s)
  \/ \E t \in Callers, pairs \in CoreRecords : LogBegin(t, pairs)
  \/ \E t \in Callers : LogSend(t)
  \/ \E t \in Callers : LogWait(t)
  \/ \E s \in SinkIds : ProcessPaused(s)
  \/ \E s \in SinkIds : ProcessRecord(s)

SpecPause == InitPause /\ [][NextPause]_vars

\* ------------------------------------------------ filters and redaction

\* One caller registers a destination (twice, the second time with another
\* formatter), configures and starts the sink, and logs one record.
FilterSinkTo == 2
FilterCfg == 2
FilterCtl == 1
FilterLogs == 1

FilterQuota ==
  [ sinkto |-> FilterSinkTo, log |-> FilterLogs, ctl |-> FilterCtl, close |-> 0,
    flush |-> 0, cfg |-> FilterCfg ]

FilterCallers == {1}

\* Arguments of the mutators.  WithKey, WithoutKey, Reset, Hide and Unhide
\* take any number of keys; the others take one key, with no value or the
\* value 1, the ranges 1..1 and 1..2, or a custom filter that accepts 1, 2
\* or nothing.
KeySets == { {"k"}, {"m"}, {"k", "m"} }
OneKey == { {"k"}, {"m"} }
KeyArgs == { [keys |-> ks, vals |-> {}] : ks \in KeySets }
ValArgs == { [keys |-> ks, vals |-> vs] : ks \in OneKey, vs \in { {}, {1} } }
RangeArgs == { [keys |-> ks, vals |-> vs] : ks \in OneKey, vs \in { {1}, {1, 2} } }
FilterArgs == { [keys |-> ks, vals |-> vs] : ks \in OneKey, vs \in { {}, {1}, {2} } }

InitFilter == InitWith(FilterQuota)

NextFilter ==
  \/ \E t \in FilterCallers, fn \in Formatters : SinkToScan(t, "w1", fn)
  \/ \E t \in FilterCallers : SinkToAppend(t)
  \/ \E t \in FilterCallers : SinkToReturn(t)
  \/ \E t \in FilterCallers, s \in SinkIds : Start(t, s)
  \/ \E t \in FilterCallers, s \in SinkIds, a \in KeyArgs : WithKey(t, s, a)
  \/ \E t \in FilterCallers, s \in SinkIds, a \in KeyArgs : WithoutKey(t, s, a)
  \/ \E t \in FilterCallers, s \in SinkIds, a \in ValArgs : WithValue(t, s, a)
  \/ \E t \in FilterCallers, s \in SinkIds, a \in ValArgs : WithoutValue(t, s, a)
  \/ \E t \in FilterCallers, s \in SinkIds, a \in RangeArgs : WithInt64Range(t, s, a)
  \/ \E t \in FilterCallers, s \in SinkIds, a \in RangeArgs : WithoutInt64Range(t, s, a)
  \/ \E t \in FilterCallers, s \in SinkIds, a \in RangeArgs : WithFloat64Range(t, s, a)
  \/ \E t \in FilterCallers, s \in SinkIds, a \in RangeArgs : WithoutFloat64Range(t, s, a)
  \/ \E t \in FilterCallers, s \in SinkIds, a \in RangeArgs : WithTimeRange(t, s, a)
  \/ \E t \in FilterCallers, s \in SinkIds, a \in RangeArgs : WithoutTimeRange(t, s, a)
  \/ \E t \in FilterCallers, s \in SinkIds, a \in FilterArgs : WithFilter(t, s, a)
  \/ \E t \in FilterCallers, s \in SinkIds, a \in KeyArgs : Reset(t, s, a)
  \/ \E t \in FilterCallers, s \in SinkIds, a \in KeyArgs : Hide(t, s, a)
  \/ \E t \in FilterCallers, s \in SinkIds, a \in KeyArgs : Unhide(t, s, a)
  \/ \E t \in FilterCallers, pairs \in AllRecords : LogBegin(t, pairs)
  \/ \E t \in FilterCallers : LogSend(t)
  \/ \E t \in FilterCallers : LogWait(t)
  \/ \E s \in SinkIds : ProcessRecord(s)

SpecFilter == InitFilter /\ [][NextFilter]_vars

\* ------------------------------------------------ closing while flushing

\* One sink: one caller flushes it while the other starts, stops and closes
\* it and logs a record.
FlushSinks == 1
FlushCtl == 2
FlushLogs == 1
FlushCloses == 1
FlushCalls == 1

FlushQuota ==
  [ sinkto |-> FlushSinks, log |-> FlushLogs, ctl |-> FlushCtl,
    close |-> FlushCloses, flush |-> FlushCalls, cfg |-> 0 ]

InitFlush == InitWith(FlushQuota)

\* The steps of caller goroutine t.
CallerStep(t) ==
  \/ SinkToScan(t, "w1", "f1")
  \/ SinkToAppend(t)
  \/ SinkToReturn(t)
  \/ \E s \in SinkIds, op \in CtlOps \cup {"Close"} : SinkLock(t, s, op, NoArg)
  \/ Unpark(t)
  \/ \E s \in SinkIds : Start(t, s)
  \/ \E s \in SinkIds : Stop(t, s)
  \/ \E s \in SinkIds : CloseCollectorLock(t, s)
  \/ \E s \in SinkIds : Close(t, s)
  \/ \E s \in SinkIds : FlushClosed(t, s)
  \/ \E s \in SinkIds : FlushSend(t, s)
  \/ FlushWait(t)
  \/ \E pairs \in CoreRecords : LogBegin(t, pairs)
  \/ LogSend(t)
  \/ LogWait(t)

\* The steps of the processOutput goroutine of sink s.
TaskStep(s) ==
  \/ Receive(s)
  \/ ProcessClosed(s)
  \/ ProcessFlush(s)
  \/ ProcessPaused(s)
  \/ ProcessRecord(s)

NextFlush ==
  \/ \E t \in Callers : CallerStep(t)
  \/ \E s \in SinkIds : TaskStep(s)

\* The Go scheduler runs every goroutine that can run: each caller and each
\* processOutput goroutine that stays able to take a step takes one.
FairSpec ==
  /\ InitFlush
  /\ [][NextFlush]_vars
  /\ \A t \in Callers : WF_vars(CallerStep(t))
  /\ \A s \in SinkIds : WF_vars(TaskStep(s))

\* ------------------------------------------------- closing a busy sink

\* One sink, started; two callers log while a third closes the sink.
DrainSinks == 1
DrainCtl == 1
DrainLogs == 2
DrainCloses == 1

DrainQuota ==
  [ sinkto |-> DrainSinks, log |-> DrainLogs, ctl |-> DrainCtl,
    close |-> DrainCloses, flush |-> 0, cfg |-> 0 ]

InitDrain == InitWith(DrainQuota)

\* The steps of caller goroutine t where no call waits for the sink's lock.
DrainStep(t) ==
  \/ SinkToScan(t, "w1", "f1")
  \/ SinkToAppend(t)
  \/ SinkToReturn(t)
  \/ \E s \in SinkIds : Start(t, s)
  \/ \E s \in SinkIds : CloseCollectorLock(t, s)
  \/ \E s \in SinkIds : Close(t, s)
  \/ \E pairs \in CoreRecords : LogBegin(t, pairs)
  \/ LogSend(t)
  \/ LogWait(t)

\* The steps of the processOutput goroutine of a sink that is never
\* stopped or flushed.
DrainTask(s) ==
  \/ Receive(s)
  \/ ProcessClosed(s)
  \/ ProcessRecord(s)

NextDrain ==
  \/ \E t \in DrainCallers : DrainStep(t)
  \/ \E s \in SinkIds : DrainTask(s)

FairDrain ==
  /\ InitDrain
  /\ [][NextDrain]_vars
  /\ \A t \in DrainCallers : WF_vars(DrainStep(t))
  /\ \A s \in SinkIds : WF_vars(DrainTask(s))

\* ---------------------------------------------- closing a sink that is full

\* One sink, started.  The producers log one record each; the closer
\* registers, starts and closes the sink.  Of the orders in which the
\* scheduler can run the goroutines, those are followed where the producers
\* start once the sink runs, enter sinkRecord, send and return in the order
\* of their numbers, and processOutput runs when its channel is full: every
\* behaviour here is one of the program.
Producers == 1..(QueueCap + 2)
Closer == QueueCap + 3

FullQuota ==
  [ sinkto |-> DrainSinks, log |-> QueueCap + 2, ctl |-> DrainCtl,
    close |-> DrainCloses, flush |-> 0, cfg |-> 0 ]

InitFull == InitWith(FullQuota)

\* The least caller of a non-empty set.
First(S) == CHOOSE x \in S : \A y \in S : x <= y

\* The producer that makes the next Log call.
NextProducer == (QueueCap + 2) - quota.log + 1
\* The producers inside the loop of sinkRecord (they hold the collector's
\* read lock), and those whose wg.Wait() can return.
InLoop == { t \in Producers : call[t].pc = "log_loop" }
Signalled == { t \in Producers : call[t].pc = "log_wait" /\ wg[t] = 0 }

\* Start has been called.
Running == quota.ctl = 0
\* The channel of s has no room.
Full(s) == Len(In[s]) = QueueCap

NextFull ==
  \/ SinkToScan(Closer, "w1", "f1")
  \/ SinkToAppend(Closer)
  \/ SinkToReturn(Closer)
  \/ \E s \in SinkIds : Start(Closer, s)
  \/ \E s \in SinkIds : CloseCollectorLock(Closer, s)
  \/ \E s \in SinkIds : Close(Closer, s)
  \/ \E pairs \in CoreRecords : Running /\ quota.log > 0 /\ LogBegin(NextProducer, pairs)
  \/ InLoop # {} /\ LogSend(First(InLoop))
  \/ Signalled # {} /\ LogWait(First(Signalled))
  \/ \E s \in SinkIds : Full(s) /\ Receive(s)
  \/ \E s \in SinkIds : Full(s) /\ ProcessClosed(s)
  \/ \E s \in SinkIds : Full(s) /\ ProcessRecord(s)

SpecFull == InitFull /\ [][NextFull]_vars

\* ------------------------------------------- calls on sinks after a Close

\* No sink has been closed so far.
NoneClosed == \A s \in SinkIds : ~sink[s].closed

\* The calls of Next, with every SinkTo call made before the first Close:
\* what follows a Close is Start, Stop, Close, Flush and Log.
NextClosed ==
  \/ \E t \in Callers, w \in Writers : NoneClosed /\ SinkToScan(t, w, "f1")
  \/ \E t \in Callers : SinkToLock(t)
  \/ \E t \in Callers : SinkToAppend(t)
  \/ \E t \in Callers : SinkToReturn(t)
  \/ \E t \in Callers, s \in SinkIds, op \in CtlOps \cup {"Close"} : SinkLock(t, s, op, NoArg)
  \/ \E t \in Callers : Unpark(t)
  \/ \E t \in Callers, s \in SinkIds : Start(t, s)
  \/ \E t \in Callers, s \in SinkIds : Stop(t, s)
  \/ \E t \in Callers, s \in SinkIds : CloseClosed(t, s)
  \/ \E t \in Callers, s \in SinkIds : CloseCollectorLock(t, s)
  \/ \E t \in Callers, s \in SinkIds : Close(t, s)
  \/ \E t \in Callers, s \in SinkIds : ClosePanic(t, s)
  \/ \E t \in Callers, s \in SinkIds : FlushClosed(t, s)
  \/ \E t \in Callers, s \in SinkIds : FlushSend(t, s)
  \/ \E t \in Callers : FlushWait(t)
  \/ \E t \in Callers, pairs \in CoreRecords : LogBegin(t, pairs)
  \/ \E t \in Callers : LogSend(t)
  \/ \E t \in Callers : LogWait(t)
  \/ \E s \in SinkIds : Receive(s)
  \/ \E s \in SinkIds : ProcessClosed(s)
  \/ \E s \in SinkIds : ProcessFlush(s)
  \/ \E s \in SinkIds : ProcessPaused(s)
  \/ \E s \in SinkIds : ProcessRecord(s)

SpecClosed == Init /\ [][NextClosed]_vars

\* ---------------------------------------------------------------- claims

\* The record id waits in the channel of s, or processOutput holds it.
Waiting(s, id) ==
  \/ \E j \in 1..Len(In[s]) : In[s][j].Record.id = id
  \/ cur[s] # NoBox /\ cur[s].Record.id = id

\* What processOutput can do with a record.
Verdicts == {"written", "rejected", "paused", "closed"}

\* processOutput of s has handled the record id.
Classified(s, id) == \E v \in Verdicts : <<id, v>> \in verdict[s]

\* The lines sink s has written, over all writers.
WrittenBy(s) ==
  { e \in UNION { { out[w][j] : j \in 1..Len(out[w]) } : w \in Writers } : e.sink = s }

\* The ids of the records s has written to w, in the order of writing.
RECURSIVE IdsOf(_, _)
IdsOf(lines, s) ==
  IF lines = <<>> THEN <<>>
  ELSE IF Head(lines).sink = s THEN <<Head(lines).id>> \o IdsOf(Tail(lines), s)
  ELSE IdsOf(Tail(lines), s)

RECURSIVE IsSubseq(_, _)
IsSubseq(a, b) ==
  IF a = <<>> THEN TRUE
  ELSE IF b = <<>> THEN FALSE
  ELSE IF Head(a) = Head(b) THEN IsSubseq(Tail(a), Tail(b))
  ELSE IsSubseq(a, Tail(b))

\* The boxes of caller t's WaitGroup that wait in a channel or are held.
Outstanding(t) ==
  LET inq(s) == Cardinality({ j \in 1..Len(In[s]) : In[s][j].Group = t })
      held(s) == IF cur[s] # NoBox /\ cur[s].Group = t THEN 1 ELSE 0
      RECURSIVE Sum(_)
      Sum(S) == IF S = {} THEN 0
                ELSE LET s == CHOOSE x \in S : TRUE IN inq(s) + held(s) + Sum(S \ {s})
  IN Sum(SinkIds)

\* Caller t is in wg.Wait() of Log and every sink its record was sent to
\* has signalled: the record has been handled and Log has not returned.
Processed(t) ==
  call[t].op = "Log" /\ call[t].pc = "log_wait" /\ wg[t] = 0 /\ call[t].ids # {}

\* The record id was rejected by s: nothing was written for it.
Rejected(s, id) ==
  /\ <<id, "rejected">> \in verdict[s]
  /\ \A e \in WrittenBy(s) : e.id # id

\* Some pair of pairs has a key with a negative and a positive filter in x
\* that are both true of the pair.
BothTrue(x, pairs) ==
  \E j \in 1..Len(pairs) :
    LET key == pairs[j].Key
        val == pairs[j].Val
    IN /\ key \in DOMAIN x.negativeFilters /\ Check(x.negativeFilters[key], key, val)
       /\ key \in DOMAIN x.positiveFilters /\ Check(x.positiveFilters[key], key, val)

\* Some pair of pairs has a hidden key with a negative filter in x that is
\* true of the pair.
HiddenRejects(x, pairs) ==
  \E j \in 1..Len(pairs) :
    LET key == pairs[j].Key
        val == pairs[j].Val
    IN /\ key \in x.hiddenKeys
       /\ key \in DOMAIN x.negativeFilters /\ Check(x.negativeFilters[key], key, val)

\* C1 (as claimed): every record sent to the channel of a sink before a
\* Flush call on that sink has been handled by processOutput (written,
\* rejected, or dropped) when that Flush call has returned.
C1_FlushGuarantee ==
  \A s \in SinkIds : \A id \in flushed[s].sent : Classified(s, id)

\* C2: when a Log call has returned, no sink the record was sent to still
\* has it waiting in its channel or held by processOutput, and each of them
\* has handled it.
C2_LogSynchronous ==
  \A id \in LogReturned : \A s \in SinkIds :
    id \in Sent(s) => ~Waiting(s, id) /\ Classified(s, id)

\* C2 happens: a Log call has returned whose record was sent to a sink.
C2_Witness ==
  \E id \in LogReturned : \E s \in SinkIds : id \in Sent(s)

\* Caller t waits in wg.Wait() of Flush on a sink while another caller is
\* inside Close on the same sink.
CloseDuringFlush(t) ==
  /\ call[t].pc = "flush_wait"
  /\ \E u \in Callers :
       /\ call[u].op = "Close" /\ call[u].s = call[t].s
       /\ call[u].pc \in {"locking", "close_body"}

\* C3 (as claimed): a Flush call that is waiting for its marker while Close
\* is called on the same sink eventually returns, with every goroutine
\* scheduled fairly.
C3_FlushReturnsDuringClose ==
  \A t \in Callers : CloseDuringFlush(t) ~> (call[t].pc # "flush_wait")

\* C4 (as claimed): with no Start, Stop or Close call made, a record logged
\* after SinkTo returned the sink, whose Log call returned before a Flush
\* call on the sink that has returned, has been written by the sink.
C4_FreshSinkWrites ==
  (quota.ctl = MaxCtl /\ quota.close = MaxClose) =>
    \A s \in SinkIds : \A id \in flushed[s].logged :
      \E e \in WrittenBy(s) : e.id = id

C6_Reregistration ==
  [][ \A t \in Callers :
        (call[t].pc = "idle" /\ call'[t].pc = "sinkto_ret") =>
          LET s == call'[t].s IN
          /\ \E i \in 1..Len(Sinks) : Sinks[i] = s
          /\ sink[s].writer = call'[t].w
          /\ sink'[s].writer = call'[t].w
          /\ sink'[s].format = call'[t].fn
          /\ sink'[s].positiveFilters = sink[s].positiveFilters
          /\ sink'[s].negativeFilters = sink[s].negativeFilters
          /\ sink'[s].hiddenKeys = sink[s].hiddenKeys
          /\ sink'[s].paused = sink[s].paused
          /\ \A x \in SinkIds \ {s} : sink'[x] = sink[x]
          /\ Sinks' = Sinks ]_vars

\* C6 happens: SinkTo with the second formatter has found a sink returned
\* before, which is running and has a filter and a hidden key.
C6_Witness ==
  \E t \in Callers :
    /\ call[t].pc = "sinkto_ret" /\ call[t].fn = "f2"
    /\ born[call[t].s] # 0
    /\ sink[call[t].s].format = "f2"
    /\ ~sink[call[t].s].paused
    /\ sink[call[t].s].hiddenKeys # {}
    /\ DOMAIN sink[call[t].s].positiveFilters # {}

\* C7 (as claimed): the registry holds at most one sink for each writer.
C7_OneSinkPerWriter ==
  \A i, j \in 1..Len(Sinks) :
    (i # j /\ sink[Sinks[i]].writer # NilWriter) =>
      sink[Sinks[i]].writer # sink[Sinks[j]].writer

\* C8: a running sink rejects a record one of whose pairs has a key with a
\* negative filter and a positive filter that are both true of the pair:
\* nothing is written for it.  (With one caller the sink's filters are the
\* same when the record has been handled as when it was.)
C8_NegativeWins ==
  \A t \in FilterCallers : \A s \in call[t].ids :
    (Processed(t) /\ BothTrue(sink[s], call[t].rec.pairs)) =>
      Rejected(s, call[t].rec.id)

\* C8 happens: a record with such a pair has been handled.
C8_Witness ==
  \E t \in FilterCallers : \E s \in call[t].ids :
    Processed(t) /\ BothTrue(sink[s], call[t].rec.pairs)

\* C9: a line a running sink writes has no pair with a hidden key; a record
\* with a hidden key whose negative filter is true of the pair is rejected;
\* and a sink with no filters that hides k writes for the record {k, m} the
\* pair of m alone.
C9_RedactionAfterFiltering ==
  \A t \in FilterCallers : \A s \in call[t].ids :
    Processed(t) =>
      LET rec == call[t].rec
          x == sink[s]
      IN
      /\ \A e \in WrittenBy(s) :
           e.id = rec.id =>
             \A j \in 1..Len(e.line.pairs) : e.line.pairs[j].Key \notin x.hiddenKeys
      /\ HiddenRejects(x, rec.pairs) => Rejected(s, rec.id)
      /\ ( /\ DOMAIN x.positiveFilters = {} /\ DOMAIN x.negativeFilters = {}
           /\ x.hiddenKeys = {"k"}
           /\ Len(rec.pairs) = 2 /\ rec.pairs[1].Key = "k" )
         => \E e \in WrittenBy(s) :
              e.id = rec.id /\ e.line.pairs = << rec.pairs[2] >>

\* C9 happens: a sink with a filter that hides k has written a record that
\* has the key k and another key.
C9_Witness ==
  \E t \in FilterCallers : \E s \in call[t].ids :
    /\ Processed(t)
    /\ "k" \in sink[s].hiddenKeys
    /\ DOMAIN sink[s].negativeFilters # {}
    /\ Len(call[t].rec.pairs) = 2 /\ call[t].rec.pairs[1].Key = "k"
    /\ \E e \in WrittenBy(s) : e.id = call[t].rec.id

\* C10: the records a sink has written, in the order of writing, are a
\* subsequence of the records sent to its channel, in the order of sending.
C10_SinkOrder ==
  \A s \in SinkIds : \A w \in Writers : IsSubseq(IdsOf(out[w], s), enq[s])

\* C10 happens: a sink has written two records, in the order they were sent.
C10_Witness ==
  \E s \in SinkIds : \E w \in Writers :
    /\ Len(IdsOf(out[w], s)) >= 2
    /\ IdsOf(out[w], s) = enq[s]

\* The record of pairs has a pair with the key.
HasKey(pairs, key) == \E j \in 1..Len(pairs) : pairs[j].Key = key

\* C11 (as claimed): a running sink whose only filter is the one WithKey(k)
\* sets writes nothing for a record that has no pair with the key k.
C11_WithKeyRestricts ==
  \A t \in FilterCallers : \A s \in call[t].ids :
    \A k \in Keys :
      ( /\ Processed(t)
        /\ DOMAIN sink[s].negativeFilters = {}
        /\ DOMAIN sink[s].positiveFilters = {k}
        /\ sink[s].positiveFilters[k] = KeyFilter
        /\ ~HasKey(call[t].rec.pairs, k) )
      => \A e \in WrittenBy(s) : e.id # call[t].rec.id

\* C12 (as claimed): no key of a sink has a positive and a negative filter
\* at once.
C12_OneClassification ==
  \A s \in Allocated :
    DOMAIN sink[s].positiveFilters \cap DOMAIN sink[s].negativeFilters = {}

\* The sinks of the registry.
Registered == { Sinks[i] : i \in 1..Len(Sinks) }

\* C13 (as claimed): no Close call faults, and the registry holds exactly
\* the sinks that were registered and are not closed.
C13_CloseRemovesExactly ==
  /\ \A t \in Callers : call[t].pc # "dead"
  /\ \A s \in Allocated : s \in Registered <=> ~sink[s].closed

\* C14 (as claimed): the id of every sink of the registry is its (0-based)
\* index in the registry.
C14_IdIsPosition ==
  \A i \in 1..Len(Sinks) : sink[Sinks[i]].id = i - 1

\* Caller t waits in wg.Wait() of Log for a record that is in the channel
\* of a closed sink.
QueuedAtClose(t) ==
  /\ call[t].op = "Log" /\ call[t].pc = "log_wait"
  /\ \E s \in call[t].ids :
       /\ sink[s].closed
       /\ \E j \in 1..Len(In[s]) : In[s][j].Record.id = call[t].rec.id

\* C15 (as claimed): a Log call whose record is in the channel of a sink
\* when the sink is closed eventually returns, with every goroutine
\* scheduled fairly.
C15_QueueDrainsAtClose ==
  \A t \in DrainCallers : QueuedAtClose(t) ~> (call[t].pc # "log_wait")

\* C16 (as claimed): once Close has returned on a sink, the sink's
\* processOutput goroutine eventually exits, with every goroutine scheduled
\* fairly.
C16_TaskExitsAfterClose ==
  \A s \in SinkIds : sink[s].closed ~> (task[s] = "exited")

\* C17 (as claimed): a record sent to a sink is never taken from the
\* channel and discarded because the sink is paused: it stays queued and
\* is processed after Start.
C17_StopKeepsQueued ==
  \A s \in SinkIds : \A id \in Sent(s) : <<id, "paused">> \notin verdict[s]

\* processOutput of s takes the record at the head of the channel in this
\* step.
Dequeues(s) ==
  /\ task[s] = "recv" /\ In[s] # <<>>
  /\ ~IsFlush(Head(In[s]))
  /\ In'[s] = Tail(In[s])

\* C17 (amended): what becomes of a queued record is decided by the paused
\* flag when processOutput takes it, not by Stop: a paused sink takes the
\* record from the channel, signals its WaitGroup and writes nothing, so
\* the record is gone when the sink is started again; a running sink with
\* no filters writes it.
C17_PausedStillDequeues ==
  [][ \A s \in SinkIds :
        (Dequeues(s) /\ ~sink[s].closed) =>
          LET box == Head(In[s])
              id == box.Record.id
          IN IF sink[s].paused
               THEN /\ out' = out
                    /\ <<id, "paused">> \in verdict'[s]
                    /\ wg'[box.Group] = wg[box.Group] - 1
                    /\ cur'[s] = NoBox
               ELSE /\ <<id, "written">> \in verdict'[s]
                    /\ \E w \in Writers :
                         /\ out'[w] = Append(out[w], out'[w][Len(out'[w])])
                         /\ out'[w][Len(out'[w])].sink = s
                         /\ out'[w][Len(out'[w])].id = id
                    /\ wg'[box.Group] = wg[box.Group] - 1 ]_vars

\* C17 happens: a record was taken and dropped while the sink was paused,
\* the sink runs again, and nothing is left in its channel.
C17_Witness ==
  \E s \in SinkIds : \E id \in Sent(s) :
    /\ <<id, "paused">> \in verdict[s]
    /\ ~sink[s].paused
    /\ In[s] = <<>>
    /\ \A t \in Callers : Idle(t)

\* No pair of pairs has a negative filter in x that is true of it, and none
\* has a positive filter in x that is false of it.
Admitted(x, pairs) ==
  \A j \in 1..Len(pairs) :
    LET key == pairs[j].Key
        val == pairs[j].Val
    IN /\ ~(key \in DOMAIN x.negativeFilters /\ Check(x.negativeFilters[key], key, val))
       /\ ~(key \in DOMAIN x.positiveFilters /\ ~Check(x.positiveFilters[key], key, val))

RacyRead(t) ==
  /\ call[t].pc = "log_loop"
  /\ LET s == Sinks[call[t].i] IN
     /\ t \notin smu[s].r /\ smu[s].w # t
     /\ \E u \in Callers \ {t} : \E op \in CtlOps : Calls(u, s, op) /\ Free(smu[s])

\* C19 (as claimed): no goroutine reads a field of a sink without the
\* sink's lock while another goroutine can write it.
C19_LockDiscipline ==
  \A t \in Callers : ~RacyRead(t)

\* Producer p is blocked in s.In <- box (line 403) on the full channel of
\* s with the collector's read lock held; closer c holds the lock of s and
\* waits in collector.Lock() (line 300); processOutput of s holds a box and
\* waits in s.RLock() (line 338).
Deadlocked(p, c, s) ==
  /\ call[p].pc = "log_loop" /\ p \in cmu.r
  /\ call[p].i <= Len(Sinks) /\ Sinks[call[p].i] = s
  /\ Targeted(sink[s]) /\ Len(In[s]) = QueueCap
  /\ call[c].pc = "close_body" /\ call[c].s = s
  /\ smu[s].w = c /\ cmu.w = c
  /\ task[s] = "box"

\* C20 (as claimed): no state is reached where a producer, a Close caller
\* and the sink's processOutput goroutine wait for one another.
C20_NoDeadlock ==
  \A p, c \in FullCallers : \A s \in SinkIds : ~Deadlocked(p, c, s)

\* Close has returned on s: the flag is set at line 301, and the call that
\* set it has not ended the program at line 303.
ClosedReturned(s) ==
  sink[s].closed /\ \A t \in Threads : call[t].pc # "dead"

\* The writers s has written to.
WroteTo(s) ==
  { w \in Writers : \E j \in 1..Len(out[w]) : out[w][j].sink = s }

\* The sinks whose lines this step appends to w.
Appending(w) ==
  { out'[w][j].sink : j \in (Len(out[w]) + 1)..Len(out'[w]) }

\* C21 (as claimed): once Close has returned on a sink, its closed flag
\* stays set and nothing more is written to the destination it wrote to.
C21_ClosedIsSilent ==
  [][\A s \in SinkIds : ClosedReturned(s) =>
       /\ sink'[s].closed
       /\ \A w \in WroteTo(s) : out'[w] = out[w]]_vars

\* C21, the closed sink alone: once Close has returned on a sink, its closed
\* flag stays set and the sink itself writes nothing more, to any writer.
C21_ClosedSinkWritesNothing ==
  [][\A s \in SinkIds : ClosedReturned(s) =>
       /\ sink'[s].closed
       /\ \A w \in Writers : s \notin Appending(w)]_vars

\* A sink that has written is closed, Close has returned, and a record sent
\* to it before the Close is still in its channel.
C21_Witness ==
  \E s \in SinkIds : ClosedReturned(s) /\ WroteTo(s) # {} /\ In[s] # <<>>

====
